---- MODULE Spec2Model ----
(***************************************************************************)
(* Model of the metrics engine of src/services/dataProcessor.ts.           *)
(*                                                                         *)
(* Timestamps are whole UTC days counted from 1970-01-01 (the code holds   *)
(* milliseconds; every date it derives keeps the time of day of the date   *)
(* it starts from, so the day number carries the calendar arithmetic).     *)
(* Values are integers and a return is the exact ratio the code's          *)
(* expression denotes, kept as a reduced fraction.  null is the empty      *)
(* tuple <<>> and a present value x is the 1-tuple <<x>>.                  *)
(***************************************************************************)
EXTENDS Integers, Sequences, FiniteSets, TLC

(***************************************************************************)
(* Bounds of the model.                                                    *)
(***************************************************************************)
MaxLen == 3
MaxPoints == 4
MaxStrategies == 2
MaxEntities == 3
MaxCharted == 2

\* the files of one upload
MaxFiles == 2

(***************************************************************************)
(* null and present values.                                                *)
(***************************************************************************)
NULL == <<>>

Some(x) == <<x>>

IsNull(o) == o = <<>>

Get(o) == o[1]

(***************************************************************************)
(* Exact arithmetic on the numbers the code computes.                      *)
(***************************************************************************)
Abs(n) == IF n < 0 THEN -n ELSE n

RECURSIVE GCD(_, _)
GCD(a, b) == IF b = 0 THEN a ELSE GCD(b, a % b)

Ratio(n, d) ==
  LET g == GCD(Abs(n), Abs(d))
      s == IF d < 0 THEN -1 ELSE 1
  IN  [num |-> (s * n) \div g, den |-> (s * d) \div g]

Minus(a, b) == Ratio(a.num * b.den - b.num * a.den, a.den * b.den)

(***************************************************************************)
(* The UTC calendar of the Date object: day number <-> (year, month, day), *)
(* months 0..11 as in getUTCMonth.                                         *)
(***************************************************************************)
DaysFromCivil(y0, m0, d) ==
  LET m   == m0 + 1
      y   == IF m <= 2 THEN y0 - 1 ELSE y0
      era == y \div 400
      yoe == y - era * 400
      mp  == IF m > 2 THEN m - 3 ELSE m + 9
      doy == (153 * mp + 2) \div 5 + d - 1
      doe == yoe * 365 + yoe \div 4 - yoe \div 100 + doy
  IN  era * 146097 + doe - 719468

CivilFromDays(z0) ==
  LET z   == z0 + 719468
      era == z \div 146097
      doe == z - era * 146097
      yoe == (doe - doe \div 1460 + doe \div 36524 - doe \div 146096) \div 365
      doy == doe - (365 * yoe + yoe \div 4 - yoe \div 100)
      mp  == (5 * doy + 2) \div 153
      d   == doy - (153 * mp + 2) \div 5 + 1
      m   == IF mp < 10 THEN mp + 3 ELSE mp - 9
      y   == yoe + era * 400 + (IF m <= 2 THEN 1 ELSE 0)
  IN  [year |-> y, month |-> m - 1, day |-> d]

getUTCFullYear(t) == CivilFromDays(t).year

getUTCMonth(t) == CivilFromDays(t).month

getUTCDate(t) == CivilFromDays(t).day

\* Date.UTC(year, month, day): month and day may lie outside their ranges.
DateUTC(year, month, day) ==
  DaysFromCivil(year + (month \div 12), month % 12, 1) + day - 1

\* d.setUTCMonth(month) keeps the day of the month of d.
setUTCMonth1(t, month) == DateUTC(getUTCFullYear(t), month, getUTCDate(t))

\* d.setUTCMonth(month, day)
setUTCMonth2(t, month, day) == DateUTC(getUTCFullYear(t), month, day)

\* d.setUTCDate(day)
setUTCDate(t, day) == DateUTC(getUTCFullYear(t), getUTCMonth(t), day)

(***************************************************************************)
(* getClosestDataPoint: the backward scan for the last point not after     *)
(* targetDate.                                                             *)
(***************************************************************************)
RECURSIVE ScanBack(_, _, _)
ScanBack(data, i, targetDate) ==
  IF i < 1 THEN NULL
  ELSE IF data[i].date <= targetDate THEN Some(data[i])
  ELSE ScanBack(data, i - 1, targetDate)

\* faulty variant: the scan accepts only points strictly before targetDate
getClosestDataPoint_strict(data, targetDate) ==
  IF Len(data) = 0 THEN NULL ELSE ScanBack(data, Len(data), targetDate - 1)

getClosestDataPoint(data, targetDate) ==
  IF Len(data) = 0 THEN NULL ELSE ScanBack(data, Len(data), targetDate)

(***************************************************************************)
(* calculateChange                                                         *)
(***************************************************************************)
\* faulty variant: the guard on the two points' dates is left out
calculateChange_noDateGuard(data, startDate, endDate) ==
  LET startPoint == getClosestDataPoint(data, startDate)
      endPoint   == getClosestDataPoint(data, endDate)
  IN  IF /\ ~IsNull(startPoint)
         /\ ~IsNull(endPoint)
         /\ Get(startPoint).value # 0
      THEN Some(Ratio(Get(endPoint).value - Get(startPoint).value,
                      Get(startPoint).value))
      ELSE NULL

calculateChange(data, startDate, endDate) ==
  LET startPoint == getClosestDataPoint(data, startDate)
      endPoint   == getClosestDataPoint(data, endDate)
  IN  IF /\ ~IsNull(startPoint)
         /\ ~IsNull(endPoint)
         /\ Get(startPoint).value # 0
         /\ Get(endPoint).date > Get(startPoint).date
      THEN Some(Ratio(Get(endPoint).value - Get(startPoint).value,
                      Get(startPoint).value))
      ELSE NULL

(***************************************************************************)
(* calculateMonthlyChanges: the six trailing calendar months, most recent  *)
(* first, reversed for output.  A month label is the (year, month) pair    *)
(* that toLocaleString prints.                                             *)
(***************************************************************************)
MonthSlots == 6

\* The host's time zone, in hours east of UTC: toLocaleString prints the
\* local date of the instant it is given.
VARIABLE utcOffset

\* UTC+8, the zone of the zh-CN interface's users
HomeZone == 8

TimeZones == {-5, HomeZone}

\* the local calendar day of the instant 00:00 UTC of day d
LocalDay(d) == (d * 24 + utcOffset) \div 24

\* d.toLocaleString('default', { month: 'short', year: 'numeric' })
MonthLabel(d) ==
  <<CivilFromDays(LocalDay(d)).year, CivilFromDays(LocalDay(d)).month>>

\* d of iteration i: latestDate's month minus i, day 1
MonthAnchor(latestDate, i) ==
  setUTCMonth2(latestDate, getUTCMonth(latestDate) - i, 1)

\* monthEnd: day 0 of the month after d
MonthEnd(latestDate, i) ==
  LET d == MonthAnchor(latestDate, i)
  IN  setUTCMonth2(d, getUTCMonth(d) + 1, 0)

\* dStart: latestDate's month minus (i + 1), day 1
MonthStart(latestDate, i) ==
  setUTCMonth2(latestDate, getUTCMonth(latestDate) - (i + 1), 1)

\* One iteration of the loop: the entries it pushes (none or one).
MonthlyPush(data, latestDate, i) ==
  LET startPoint == getClosestDataPoint(data, MonthStart(latestDate, i))
      endPoint   == getClosestDataPoint(data, MonthEnd(latestDate, i))
  IN  IF /\ ~IsNull(startPoint)
         /\ ~IsNull(endPoint)
         /\ Get(startPoint).value # 0
      THEN << [month  |-> MonthLabel(MonthAnchor(latestDate, i)),
               change |-> Ratio(Get(endPoint).value - Get(startPoint).value,
                                Get(startPoint).value)] >>
      ELSE << >>

RECURSIVE MonthlyLoop(_, _, _, _)
MonthlyLoop(data, latestDate, i, changes) ==
  IF i < MonthSlots
  THEN MonthlyLoop(data, latestDate, i + 1,
                   changes \o MonthlyPush(data, latestDate, i))
  ELSE changes

Reverse(s) == [k \in 1..Len(s) |-> s[Len(s) + 1 - k]]

calculateMonthlyChanges(data, latestDate) ==
  Reverse(MonthlyLoop(data, latestDate, 0, << >>))

(***************************************************************************)
(* calculateMetricsForEntity.  A call either throws or returns.            *)
(***************************************************************************)
Throw(name) == [threw |-> TRUE, error |-> name, value |-> NULL]

Return(v) == [threw |-> FALSE, error |-> "", value |-> Some(v)]

WeekDays == 7

\* faulty variant: the reference date is eight days back
oneWeekAgoOf_eightDays(latestDate) ==
  setUTCDate(latestDate, getUTCDate(latestDate) - (WeekDays + 1))

oneWeekAgoOf(latestDate) ==
  setUTCDate(latestDate, getUTCDate(latestDate) - WeekDays)

oneMonthAgoOf(latestDate) ==
  setUTCMonth1(latestDate, getUTCMonth(latestDate) - 1)

startOfYearOf(latestDate) == DateUTC(getUTCFullYear(latestDate), 0, 1)

\* faulty variant: the difference is taken the other way round
ExcessField_swapped(a, b) ==
  IF ~IsNull(a) /\ ~IsNull(b) THEN Some(Minus(Get(b), Get(a))) ELSE NULL

\* a !== null && b !== null ? a - b : null
ExcessField(a, b) ==
  IF ~IsNull(a) /\ ~IsNull(b) THEN Some(Minus(Get(a), Get(b))) ELSE NULL

\* faulty variant: the benchmark's ITD change is taken from the benchmark's own
\* first date instead of the product's inception date
ExcessRecord_ownInception(metrics, b) ==
  LET latestDate  == metrics.latestDate
      bChange1W   == calculateChange(b.data, oneWeekAgoOf(latestDate), latestDate)
      bChange1M   == calculateChange(b.data, oneMonthAgoOf(latestDate), latestDate)
      bChangeYTD  == calculateChange(b.data, startOfYearOf(latestDate), latestDate)
      bChangeITD  == IF Len(b.data) = 0 THEN NULL
                     ELSE calculateChange(b.data, b.data[1].date, latestDate)
  IN  [vs        |-> b.name,
       change1W  |-> ExcessField(metrics.change1W, bChange1W),
       change1M  |-> ExcessField(metrics.change1M, bChange1M),
       changeYTD |-> ExcessField(metrics.changeYTD, bChangeYTD),
       changeITD |-> ExcessField(metrics.changeITD, bChangeITD)]

\* faulty variant: the benchmark's 1W, 1M and YTD changes are taken over the
\* benchmark's own windows, which end at the benchmark's own latest date
ExcessRecord_ownWindow(metrics, b) ==
  LET latestDate  == IF Len(b.data) = 0 THEN metrics.latestDate
                     ELSE b.data[Len(b.data)].date
      bChange1W   == calculateChange(b.data, oneWeekAgoOf(latestDate), latestDate)
      bChange1M   == calculateChange(b.data, oneMonthAgoOf(latestDate), latestDate)
      bChangeYTD  == calculateChange(b.data, startOfYearOf(latestDate), latestDate)
      bChangeITD  == calculateChange(b.data, metrics.inceptionDate,
                                     metrics.latestDate)
  IN  [vs        |-> b.name,
       change1W  |-> ExcessField(metrics.change1W, bChange1W),
       change1M  |-> ExcessField(metrics.change1M, bChange1M),
       changeYTD |-> ExcessField(metrics.changeYTD, bChangeYTD),
       changeITD |-> ExcessField(metrics.changeITD, bChangeITD)]

\* The record benchmarks.map builds for benchmark b (lines 203-218).
ExcessRecord(metrics, b) ==
  LET latestDate  == metrics.latestDate
      bChange1W   == calculateChange(b.data, oneWeekAgoOf(latestDate), latestDate)
      bChange1M   == calculateChange(b.data, oneMonthAgoOf(latestDate), latestDate)
      bChangeYTD  == calculateChange(b.data, startOfYearOf(latestDate), latestDate)
      bChangeITD  == calculateChange(b.data, metrics.inceptionDate, latestDate)
  IN  [vs        |-> b.name,
       change1W  |-> ExcessField(metrics.change1W, bChange1W),
       change1M  |-> ExcessField(metrics.change1M, bChange1M),
       changeYTD |-> ExcessField(metrics.changeYTD, bChangeYTD),
       changeITD |-> ExcessField(metrics.changeITD, bChangeITD)]

\* faulty variant: changeITD is measured from the start of the year
BaseMetrics_itdFromYearStart(data) ==
  LET inceptionDate == data[1].date
      latestPoint   == data[Len(data)]
      latestDate    == latestPoint.date
  IN  [inceptionDate  |-> inceptionDate,
       latestValue    |-> latestPoint.value,
       latestDate     |-> latestDate,
       change1W       |-> calculateChange(data, oneWeekAgoOf(latestDate), latestDate),
       change1M       |-> calculateChange(data, oneMonthAgoOf(latestDate), latestDate),
       changeYTD      |-> calculateChange(data, startOfYearOf(latestDate), latestDate),
       changeITD      |-> calculateChange(data, startOfYearOf(latestDate), latestDate),
       monthlyChanges |-> calculateMonthlyChanges(data, latestDate),
       excessReturns  |-> NULL]

\* The Metrics record before excessReturns is attached (lines 172-200).
BaseMetrics(data) ==
  LET inceptionDate == data[1].date
      latestPoint   == data[Len(data)]
      latestDate    == latestPoint.date
  IN  [inceptionDate  |-> inceptionDate,
       latestValue    |-> latestPoint.value,
       latestDate     |-> latestDate,
       change1W       |-> calculateChange(data, oneWeekAgoOf(latestDate), latestDate),
       change1M       |-> calculateChange(data, oneMonthAgoOf(latestDate), latestDate),
       changeYTD      |-> calculateChange(data, startOfYearOf(latestDate), latestDate),
       changeITD      |-> calculateChange(data, inceptionDate, latestDate),
       monthlyChanges |-> calculateMonthlyChanges(data, latestDate),
       excessReturns  |-> NULL]

\* faulty variant: an empty benchmark list is not told from a non-empty one
WantsExcess_noLengthCheck(entity, benchmarks) ==
  /\ entity.type = "product"
  /\ ~IsNull(benchmarks)

\* faulty variant: an entity that holds metrics already gets no excess returns
WantsExcess_unlessStored(entity, benchmarks) ==
  /\ entity.type = "product"
  /\ ~IsNull(benchmarks)
  /\ Len(Get(benchmarks)) > 0
  /\ IsNull(entity.metrics)

\* entity.type === 'product' && benchmarks && benchmarks.length > 0
WantsExcess(entity, benchmarks) ==
  /\ entity.type = "product"
  /\ ~IsNull(benchmarks)
  /\ Len(Get(benchmarks)) > 0

\* The body of calculateMetricsForEntity after its guard (lines 172-221).
MetricsOf(entity, benchmarks) ==
  LET metrics == BaseMetrics(entity.data)
  IN  IF WantsExcess(entity, benchmarks)
      THEN [metrics EXCEPT !.excessReturns =
              Some([k \in 1..Len(Get(benchmarks)) |->
                      ExcessRecord(metrics, Get(benchmarks)[k])])]
      ELSE metrics

\* faulty variant: a series of a single point is refused too
calculateMetricsForEntity_needsTwo(entity, benchmarks) ==
  IF Len(entity.data) < 2 THEN Throw(entity.name)
  ELSE Return(MetricsOf(entity, benchmarks))

\* faulty variant: a benchmark without data makes the call throw
calculateMetricsForEntity_emptyBenchmarkThrows(entity, benchmarks) ==
  IF Len(entity.data) = 0 THEN Throw(entity.name)
  ELSE IF /\ WantsExcess(entity, benchmarks)
          /\ \E k \in 1..Len(Get(benchmarks)) : Len(Get(benchmarks)[k].data) = 0
       THEN Throw("benchmark")
       ELSE Return(MetricsOf(entity, benchmarks))

\* benchmarks is NULL when the argument is left out.
calculateMetricsForEntity(entity, benchmarks) ==
  IF Len(entity.data) = 0 THEN Throw(entity.name)
  ELSE Return(MetricsOf(entity, benchmarks))

(***************************************************************************)
(* calculateAllMetrics: benchmarks first, then products against the        *)
(* calculated benchmarks; the first call that throws ends the whole run.   *)
(***************************************************************************)
SetMin(S) == CHOOSE x \in S : \A y \in S : x <= y

\* The outcome of mapping a throwing function over a list: the first throw,
\* or the list of returned values.
FirstThrowOrAll(results) ==
  LET thrown == {k \in 1..Len(results) : results[k].threw}
  IN  IF thrown # {} THEN Throw(results[SetMin(thrown)].error)
      ELSE Return([k \in 1..Len(results) |-> Get(results[k].value)])

\* the callback runs once per element, in order
MapOutcome(results) == FirstThrowOrAll(results \o << >>)

\* the benchmarks of a strategy with their calculated metrics attached
WithMetrics(entities, metricsList) ==
  [k \in 1..Len(entities) |->
     [entities[k] EXCEPT !.metrics = Some(metricsList[k])]] \o << >>

\* the products of a strategy calculated against its calculated benchmarks
StrategyOf(strategy, calculatedBenchmarks, pOut) ==
  IF pOut.threw THEN pOut
  ELSE Return([name       |-> strategy.name,
               products   |-> WithMetrics(strategy.products, Get(pOut.value)),
               benchmarks |-> calculatedBenchmarks])

ProductsOf(strategy, calculatedBenchmarks) ==
  StrategyOf(strategy, calculatedBenchmarks,
             MapOutcome([k \in 1..Len(strategy.products) |->
                           calculateMetricsForEntity(strategy.products[k],
                                                     Some(calculatedBenchmarks))]))

BenchmarksOf(strategy, bOut) ==
  IF bOut.threw THEN bOut
  ELSE ProductsOf(strategy, WithMetrics(strategy.benchmarks, Get(bOut.value)))

calculateStrategy(strategy) ==
  BenchmarksOf(strategy,
               MapOutcome([k \in 1..Len(strategy.benchmarks) |->
                             calculateMetricsForEntity(strategy.benchmarks[k], NULL)]))

calculateAllMetrics(strategies) ==
  MapOutcome([k \in 1..Len(strategies) |-> calculateStrategy(strategies[k])])

(***************************************************************************)
(* Inputs.  A series is what parseExcelFile resolves with: points sorted   *)
(* by date, equal dates allowed.                                           *)
(***************************************************************************)
Point(d, v) == [date |-> d, value |-> v]

\* 2023-08-31, 2023-09-30, 2023-11-30, 2024-01-01, 2024-01-31, 2024-03-24,
\* 2024-03-31
Dates ==
  { DateUTC(2023, 7, 31), DateUTC(2023, 8, 30),
    DateUTC(2023, 10, 30), DateUTC(2024, 0, 1), DateUTC(2024, 0, 31),
    DateUTC(2024, 2, 24), DateUTC(2024, 2, 31) }

Values == {0, 1, 2}

Points == {Point(d, v) : d \in Dates, v \in Values}

\* the dates and values of the series drawn together with benchmarks
FewDates == {DateUTC(2023, 10, 30), DateUTC(2024, 0, 31), DateUTC(2024, 2, 31)}

FewValues == {0, 2}

FewPoints == {Point(d, v) : d \in FewDates, v \in FewValues}

\* the series and target dates of the lookups: a day before every point
\* (2023-11-29), the points' days, and a day between two of them (2024-02-15)
LookupPoints == {Point(d, v) : d \in FewDates, v \in Values}

QueryDates == FewDates \cup {DateUTC(2023, 10, 29), DateUTC(2024, 1, 15)}

IsSorted(s) == \A i \in 1..(Len(s) - 1) : s[i].date <= s[i + 1].date

SeriesOfLen(P, n) == {s \in [1..n -> P] : IsSorted(s)}

Series == UNION {SeriesOfLen(Points, n) : n \in 0..MaxLen}

LookupSeries == UNION {SeriesOfLen(LookupPoints, n) : n \in 0..MaxLen}

FewSeries[n \in 0..(MaxPoints + 1)] == SeriesOfLen(FewPoints, n)

Entity(name, type, data) ==
  [name |-> name, type |-> type, data |-> data, metrics |-> NULL]

BenchName(k) == IF k = 1 THEN "B1" ELSE IF k = 2 THEN "B2" ELSE "B3"

Benchmark(k, data) == Entity(BenchName(k), "benchmark", data)

(***************************************************************************)
(* State: the arguments of the call under study and its outcome.           *)
(***************************************************************************)
VARIABLES entity, benchmarks, strategies, startDate, endDate, activeTab, timeRange, out

\* The upload under way and the state of App: the arguments of the upload
\* (files, strategyName), App's isLoading and view, the upload handler that
\* is waiting for its promise (pending), and whether the effect on
\* [strategies] has yet to run (effectDue).
VARIABLES files, strategyName, isLoading, view, pending, effectDue

uploadVars == <<files, strategyName, isLoading, view, pending, effectDue>>

vars == <<entity, benchmarks, strategies, startDate, endDate, activeTab, timeRange,
          utcOffset, uploadVars, out>>

NoCall == [op |-> "none", val |-> NULL, prev |-> NULL]

Called(op, val) == [op |-> op, val |-> val, prev |-> NULL]

\* No upload under way: App has finished loading and shows the view v.
AppShows(v) ==
  /\ files = << >>
  /\ strategyName = ""
  /\ isLoading = FALSE
  /\ view = v
  /\ pending = NULL
  /\ effectDue = FALSE

\* an entity alone (benchmarks left out), or an entity with a benchmark list
InitEntity ==
  /\ \E d \in Series, t \in {"product", "benchmark"} :
       entity = Entity("E", t, d)
  /\ benchmarks = NULL

\* an entity with a benchmark list of no or one benchmark, the two series
\* holding at most MaxPoints points together
InitWithBenchmarks ==
  \E n \in 0..MaxPoints, t \in {"product", "benchmark"} :
    \E d \in FewSeries[n] :
      /\ entity = Entity("E", t, d)
      /\ \/ benchmarks = Some(<< >>)
         \/ \E m \in 0..(MaxPoints - n) : \E bd \in FewSeries[m] :
              benchmarks = Some(<<Benchmark(1, bd)>>)

Init ==
  /\ utcOffset \in TimeZones
  /\ AppShows("uploader")
  /\ InitEntity \/ InitWithBenchmarks
  /\ strategies = << >>
  /\ startDate = 0
  /\ endDate = 0
  /\ activeTab = "Overview"
  /\ timeRange = "ITD"
  /\ out = NoCall

\* calculateMonthlyChanges(data, latestDate), as calculateMetricsForEntity
\* calls it: on a series with a last point.
CalculateMonthlyChanges ==
  /\ Len(entity.data) > 0
  /\ out' = Called("calculateMonthlyChanges",
                   calculateMonthlyChanges(entity.data,
                                           entity.data[Len(entity.data)].date))
  /\ UNCHANGED <<entity, benchmarks, strategies, startDate, endDate, utcOffset, uploadVars, activeTab, timeRange>>

CalculateMetricsForEntity ==
  /\ out' = Called("calculateMetricsForEntity",
                   calculateMetricsForEntity(entity, benchmarks))
  /\ UNCHANGED <<entity, benchmarks, strategies, startDate, endDate, utcOffset, uploadVars, activeTab, timeRange>>

Next == CalculateMonthlyChanges \/ CalculateMetricsForEntity

Spec == Init /\ [][Next]_vars

(***************************************************************************)
(* The lookups on their own: getClosestDataPoint(data, startDate) and      *)
(* calculateChange(data, startDate, endDate).                              *)
(***************************************************************************)
InitLookup ==
  /\ utcOffset \in TimeZones
  /\ AppShows("uploader")
  /\ \E d \in LookupSeries : entity = Entity("E", "product", d)
  /\ benchmarks = NULL
  /\ strategies = << >>
  /\ startDate \in QueryDates
  /\ endDate \in QueryDates
  /\ activeTab = "Overview"
  /\ timeRange = "ITD"
  /\ out = NoCall

GetClosestDataPoint ==
  /\ out' = Called("getClosestDataPoint",
                   getClosestDataPoint(entity.data, startDate))
  /\ UNCHANGED <<entity, benchmarks, strategies, startDate, endDate, utcOffset, uploadVars, activeTab, timeRange>>

CalculateChange ==
  /\ out' = Called("calculateChange",
                   calculateChange(entity.data, startDate, endDate))
  /\ UNCHANGED <<entity, benchmarks, strategies, startDate, endDate, utcOffset, uploadVars, activeTab, timeRange>>

NextLookup == GetClosestDataPoint \/ CalculateChange

SpecLookup == InitLookup /\ [][NextLookup]_vars

(***************************************************************************)
(* Two runs of calculateMetricsForEntity for one product and one           *)
(* benchmark: the second run's benchmark lacks the earliest points of the  *)
(* first run's, so its inception date is later; nothing else differs.      *)
(***************************************************************************)
InitAnchor ==
  /\ utcOffset \in TimeZones
  /\ AppShows("uploader")
  /\ \E n \in 0..(MaxPoints + 1) : \E d \in FewSeries[n] :
       /\ entity = Entity("E", "product", d)
       /\ \E m \in 0..(MaxPoints + 1 - n) : \E bd \in FewSeries[m] :
            benchmarks = Some(<<Benchmark(1, bd)>>)
  /\ strategies = << >>
  /\ startDate = 0
  /\ endDate = 0
  /\ activeTab = "Overview"
  /\ timeRange = "ITD"
  /\ out = NoCall

RecalculateWithLaterBenchmark ==
  /\ out.op = "calculateMetricsForEntity"
  /\ LET bd == Get(benchmarks)[1].data
     IN  \E k \in 1..(Len(bd) - 1) :
           /\ bd[k].date < bd[k + 1].date
           /\ benchmarks' = Some(<<Benchmark(1, SubSeq(bd, k + 1, Len(bd)))>>)
           /\ out' = [op   |-> "recalculated",
                      val  |-> calculateMetricsForEntity(entity, benchmarks'),
                      prev |-> Some(out.val)]
  /\ UNCHANGED <<entity, strategies, startDate, endDate, utcOffset, uploadVars, activeTab, timeRange>>

NextAnchor == CalculateMetricsForEntity \/ RecalculateWithLaterBenchmark

SpecAnchor == InitAnchor /\ [][NextAnchor]_vars

(***************************************************************************)
(* calculateAllMetrics over strategies.  The series of the entities come   *)
(* from a small library: no data; a long history; a later start; a single  *)
(* point.                                                                  *)
(***************************************************************************)
LibrarySeries ==
  { << >>,
    << Point(DateUTC(2023, 10, 30), 1), Point(DateUTC(2024, 2, 24), 2),
       Point(DateUTC(2024, 2, 31), 2) >>,
    << Point(DateUTC(2024, 0, 31), 2), Point(DateUTC(2024, 2, 31), 1) >>,
    << Point(DateUTC(2024, 2, 31), 1) >> }

StrategyName(k) == IF k = 1 THEN "S1" ELSE IF k = 2 THEN "S2" ELSE "S3"

ProductName(k) ==
  IF k = 1 THEN "P1" ELSE IF k = 2 THEN "P2" ELSE IF k = 3 THEN "P3" ELSE "P4"

\* the numbers of entities of the first k strategies of a list of
\* <<products, benchmarks>> sizes
RECURSIVE EntitiesOf(_, _)
EntitiesOf(sizes, k) ==
  IF k = 0 THEN 0 ELSE EntitiesOf(sizes, k - 1) + sizes[k][1] + sizes[k][2]

\* the strategies of the given sizes, their series taken in order from flat
NamedStrategies(sizes, flat) ==
  [k \in 1..Len(sizes) |->
     [name       |-> StrategyName(k),
      products   |-> [j \in 1..sizes[k][1] |->
                        Entity(ProductName(j), "product",
                               flat[EntitiesOf(sizes, k - 1) + j])],
      benchmarks |-> [j \in 1..sizes[k][2] |->
                        Benchmark(j, flat[EntitiesOf(sizes, k - 1)
                                          + sizes[k][1] + j])]]]

InitAll ==
  /\ utcOffset = HomeZone
  /\ AppShows("uploader")
  /\ \E s \in 0..MaxStrategies :
       \E sizes \in [1..s -> (0..MaxEntities) \X (0..MaxEntities)] :
         /\ EntitiesOf(sizes, s) <= MaxEntities
         /\ \E flat \in [1..EntitiesOf(sizes, s) -> LibrarySeries] :
              strategies = NamedStrategies(sizes, flat)
  /\ entity = Entity("E", "product", << >>)
  /\ benchmarks = NULL
  /\ startDate = 0
  /\ endDate = 0
  /\ activeTab = "Overview"
  /\ timeRange = "ITD"
  /\ out = NoCall

CalculateAllMetrics ==
  /\ out' = Called("calculateAllMetrics", calculateAllMetrics(strategies))
  /\ UNCHANGED <<entity, benchmarks, strategies, startDate, endDate, utcOffset, uploadVars, activeTab, timeRange>>

\* calculateAllMetrics over the strategies it returned, which hold their
\* metrics already (as processBenchmarkFiles runs it over currentStrategies)
RecalculateAllMetrics ==
  /\ out.op = "calculateAllMetrics"
  /\ ~out.val.threw
  /\ strategies' = Get(out.val.value)
  /\ out' = [op   |-> "recalculateAllMetrics",
             val  |-> calculateAllMetrics(strategies'),
             prev |-> Some(out.val)]
  /\ UNCHANGED <<entity, benchmarks, startDate, endDate, utcOffset, uploadVars, activeTab, timeRange>>

NextAll == CalculateAllMetrics \/ RecalculateAllMetrics

SpecAll == InitAll /\ [][NextAll]_vars

(***************************************************************************)
(* NetWorthChart: the series of a chart put on one date axis, each rebased *)
(* to its first point in the window, gaps filled from the date before.     *)
(* A quotient with divisor 0 keeps den = 0: num 0 is NaN, num 1 Infinity.  *)
(***************************************************************************)
TimeRanges == {"ITD", "Y5", "Y3", "Y1", "YTD", "M1"}

\* d.setUTCFullYear(year) keeps the month and the day of the month of d.
setUTCFullYear(t, year) == DateUTC(year, getUTCMonth(t), getUTCDate(t))

getStartDate(range, latest, inception) ==
  CASE range = "M1"  -> setUTCMonth1(latest, getUTCMonth(latest) - 1)
    [] range = "YTD" -> DateUTC(getUTCFullYear(latest), 0, 1)
    [] range = "Y1"  -> setUTCFullYear(latest, getUTCFullYear(latest) - 1)
    [] range = "Y3"  -> setUTCFullYear(latest, getUTCFullYear(latest) - 3)
    [] range = "Y5"  -> setUTCFullYear(latest, getUTCFullYear(latest) - 5)
    [] OTHER         -> inception

\* dp.value / rebaseValue
Quotient(a, b) ==
  IF b = 0 THEN [num |-> IF a > 0 THEN 1 ELSE IF a < 0 THEN -1 ELSE 0, den |-> 0]
  ELSE Ratio(a, b)

allDates(data) ==
  UNION { {data[k].data[i].date : i \in 1..Len(data[k].data)} : k \in 1..Len(data) }

\* Array.from(set).sort((a, b) => a - b)
RECURSIVE SortedSeq(_)
SortedSeq(S) ==
  IF S = {} THEN << >> ELSE <<SetMin(S)>> \o SortedSeq(S \ {SetMin(S)})

\* faulty variant: the window is resolved from the earliest date
latestDateOf_earliest(sortedDates, now) ==
  IF Len(sortedDates) > 0 THEN sortedDates[1] ELSE now

latestDateOf(sortedDates, now) ==
  IF Len(sortedDates) > 0 THEN sortedDates[Len(sortedDates)] ELSE now

filteredDatesOf(sortedDates, start) ==
  LET InRange(d) == d >= start IN SelectSeq(sortedDates, InRange)

\* item.data.find(dp => dp.date >= startDate)
firstPointInRange(item, start) ==
  LET found == {i \in 1..Len(item.data) : item.data[i].date >= start}
  IN  IF found = {} THEN NULL ELSE Some(item.data[SetMin(found)])

rebaseValueOf(firstPoint) == IF IsNull(firstPoint) THEN 1 ELSE Get(firstPoint).value

\* rebasedData[date][name] = v
Put(grid, date, name, v) ==
  [x \in DOMAIN grid \cup {<<date, name>>} |->
     IF x = <<date, name>> THEN v ELSE grid[x]]

PutInRange(grid, dp, name, rebaseValue, start) ==
  IF dp.date >= start THEN Put(grid, dp.date, name, Quotient(dp.value, rebaseValue))
  ELSE grid

\* item.data.forEach over the first i points of item
RECURSIVE RebasePoints(_, _, _, _, _)
RebasePoints(grid, item, rebaseValue, start, i) ==
  IF i = 0 THEN grid
  ELSE PutInRange(RebasePoints(grid, item, rebaseValue, start, i - 1),
                  item.data[i], item.name, rebaseValue, start)

\* rebasedData after data.map went over the first k items
RECURSIVE RebaseItems(_, _, _)
RebaseItems(data, start, k) ==
  IF k = 0 THEN << >>
  ELSE RebasePoints(RebaseItems(data, start, k - 1), data[k],
                    rebaseValueOf(firstPointInRange(data[k], start)),
                    start, Len(data[k].data))

seriesDataOf(data) ==
  [k \in 1..Len(data) |-> [name |-> data[k].name, type |-> data[k].type]]

SeriesNames(data) == {data[k].name : k \in 1..Len(data)}

\* the entry the first map builds for a date
RawEntry(grid, date, names) ==
  [date   |-> date,
   values |-> [n \in names |->
                 IF <<date, n>> \in DOMAIN grid THEN Some(grid[<<date, n>>])
                 ELSE NULL]]

\* faulty variant: a slot with nothing before it defaults to 1
FillEntry_defaultsToOne(entry, i, before) ==
  [date   |-> entry.date,
   values |-> [n \in DOMAIN entry.values |->
                 IF IsNull(entry.values[n])
                 THEN (IF i > 1 THEN before[i - 1].values[n] ELSE <<[num |-> 1, den |-> 1]>>)
                 ELSE entry.values[n]]]

\* the entry of index i - 1 after the second map: a null slot takes the
\* slot of the entry before, which the map has filled already
FillEntry(entry, i, before) ==
  [date   |-> entry.date,
   values |-> [n \in DOMAIN entry.values |->
                 IF IsNull(entry.values[n]) /\ i > 1 THEN before[i - 1].values[n]
                 ELSE entry.values[n]]]

\* faulty variant: a null slot takes the slot the first map gave the entry
\* before, so a value is carried over one gap date only
RECURSIVE ForwardFill_oneStep(_, _)
ForwardFill_oneStep(raw, i) ==
  IF i = 0 THEN << >>
  ELSE Append(ForwardFill_oneStep(raw, i - 1), FillEntry(raw[i], i, raw))

RECURSIVE ForwardFill(_, _)
ForwardFill(raw, i) ==
  IF i = 0 THEN << >>
  ELSE Append(ForwardFill(raw, i - 1), FillEntry(raw[i], i, ForwardFill(raw, i - 1)))

finalChartData(grid, filteredDates, names) ==
  ForwardFill([i \in 1..Len(filteredDates) |-> RawEntry(grid, filteredDates[i], names)],
              Len(filteredDates))

ChartFrom(data, start, sortedDates) ==
  [chartData |-> finalChartData(RebaseItems(data, start, Len(data)),
                                filteredDatesOf(sortedDates, start),
                                SeriesNames(data)),
   series    |-> seriesDataOf(data)]

ChartOfDates(data, range, inception, sortedDates, now) ==
  ChartFrom(data, getStartDate(range, latestDateOf(sortedDates, now), inception),
            sortedDates)

NetWorthChart(data, range, inception, now) ==
  IF Len(data) = 0 THEN [chartData |-> << >>, series |-> << >>]
  ELSE ChartOfDates(data, range, inception, SortedSeq(allDates(data)), now)

(***************************************************************************)
(* Dashboard: the chart of the active tab.  The Overview tab charts the    *)
(* products of every strategy, a strategy's tab its products and           *)
(* benchmarks; both start an ITD window at strategyInceptionDate.          *)
(***************************************************************************)
RECURSIVE FlatProducts(_, _)
FlatProducts(strats, k) ==
  IF k = 0 THEN << >> ELSE FlatProducts(strats, k - 1) \o strats[k].products

allProducts(strats) == FlatProducts(strats, Len(strats))

\* strategies.find(s => s.name === activeTab)
FindStrategy(strats, tab) ==
  LET found == {k \in 1..Len(strats) : strats[k].name = tab}
  IN  IF found = {} THEN NULL ELSE Some(strats[SetMin(found)])

productsInView(strats, tab) ==
  IF tab = "Overview" THEN Some(allProducts(strats))
  ELSE IF IsNull(FindStrategy(strats, tab)) THEN NULL
  ELSE Some(Get(FindStrategy(strats, tab)).products)

\* faulty variant: the latest inception date is taken
MinInception_latest(products) ==
  CHOOSE x \in {Get(products[j].metrics).inceptionDate : j \in 1..Len(products)} :
    \A j \in 1..Len(products) : x >= Get(products[j].metrics).inceptionDate

\* Math.min(...inceptionDates)
MinInception(products) ==
  SetMin({Get(products[j].metrics).inceptionDate : j \in 1..Len(products)})

strategyInceptionDate(strats, tab) ==
  IF IsNull(productsInView(strats, tab)) THEN 0
  ELSE IF Len(Get(productsInView(strats, tab))) = 0 THEN 0
  ELSE MinInception(Get(productsInView(strats, tab)))

\* the data prop of the chart renderContent puts on the tab
ChartEntities(strats, tab) ==
  IF tab = "Overview" THEN Some(allProducts(strats))
  ELSE IF IsNull(FindStrategy(strats, tab)) THEN NULL
  ELSE Some(Get(FindStrategy(strats, tab)).products
            \o Get(FindStrategy(strats, tab)).benchmarks)

renderContent(strats, tab, range, now) ==
  IF IsNull(ChartEntities(strats, tab)) THEN NULL
  ELSE Some(NetWorthChart(Get(ChartEntities(strats, tab)), range,
                          strategyInceptionDate(strats, tab), now))

\* the series of the charted entities: a long history with an old first
\* point, a later start with gaps, a start on a date held by two points
ChartSeries ==
  { << Point(DateUTC(2022, 10, 30), 1), Point(DateUTC(2024, 0, 31), 2),
       Point(DateUTC(2024, 1, 29), 3), Point(DateUTC(2024, 2, 24), 2),
       Point(DateUTC(2024, 2, 31), 4) >>,
    << Point(DateUTC(2024, 0, 31), 2), Point(DateUTC(2024, 2, 31), 1) >>,
    << Point(DateUTC(2024, 2, 24), 1), Point(DateUTC(2024, 2, 24), 2),
       Point(DateUTC(2024, 2, 31), 3) >> }

\* Date.now()
Nows == {DateUTC(2024, 3, 15), DateUTC(2025, 0, 1)}

Tabs(strats) == {"Overview"} \cup {strats[k].name : k \in 1..Len(strats)}

\* the strategies App holds after setStrategies(processedData), as plain
\* lists
StoredStrategy(strategy) ==
  [name       |-> strategy.name,
   products   |-> strategy.products \o << >>,
   benchmarks |-> strategy.benchmarks \o << >>]

RECURSIVE StoredStrategies(_, _)
StoredStrategies(strats, k) ==
  IF k = 0 THEN << >>
  ELSE Append(StoredStrategies(strats, k - 1), StoredStrategy(strats[k]))

processedData(input) ==
  StoredStrategies(Get(calculateAllMetrics(input).value), Len(input))

\* the Dashboard as App mounts it: calculated strategies, at least one, of
\* at most MaxCharted entities together, the Overview tab and the ITD range
\* selected
InitDashboard ==
  /\ utcOffset = HomeZone
  /\ AppShows("dashboard")
  /\ \E s \in 1..MaxStrategies :
       \E sizes \in [1..s -> (0..MaxCharted) \X (0..MaxCharted)] :
         /\ EntitiesOf(sizes, s) <= MaxCharted
         /\ \E flat \in [1..EntitiesOf(sizes, s) -> ChartSeries] :
              strategies = processedData(NamedStrategies(sizes, flat))
  /\ entity = Entity("E", "product", << >>)
  /\ benchmarks = NULL
  /\ startDate = 0
  /\ endDate = 0
  /\ activeTab = "Overview"
  /\ timeRange = "ITD"
  /\ \E now \in Nows :
       out = Called("renderContent",
                    renderContent(strategies, activeTab, timeRange, now))

SetActiveTab ==
  /\ \E tabName \in Tabs(strategies) :
       /\ activeTab' = tabName
       /\ \E now \in Nows :
            out' = Called("renderContent",
                          renderContent(strategies, tabName, timeRange, now))
  /\ UNCHANGED <<entity, benchmarks, strategies, startDate, endDate, utcOffset, uploadVars, timeRange>>

SetTimeRange ==
  /\ \E range \in TimeRanges :
       /\ timeRange' = range
       /\ \E now \in Nows :
            out' = Called("renderContent",
                          renderContent(strategies, activeTab, range, now))
  /\ UNCHANGED <<entity, benchmarks, strategies, startDate, endDate, utcOffset, uploadVars, activeTab>>

NextDashboard == SetActiveTab \/ SetTimeRange

SpecDashboard == InitDashboard /\ [][NextDashboard]_vars

(***************************************************************************)
(* The one-month reference date on its own: oneMonthAgo of                 *)
(* calculateMetricsForEntity and the M1 start of getStartDate, applied to  *)
(* every latestDate of fifteen months (a leap February included).          *)
(***************************************************************************)
LatestDates == DateUTC(2023, 0, 1)..DateUTC(2024, 2, 31)

InitMonthAgo ==
  /\ utcOffset \in TimeZones
  /\ AppShows("uploader")
  /\ entity = Entity("E", "product", << >>)
  /\ benchmarks = NULL
  /\ strategies = << >>
  /\ startDate = 0
  /\ endDate \in LatestDates
  /\ activeTab = "Overview"
  /\ timeRange = "ITD"
  /\ out = NoCall

\* oneMonthAgo of latestDate (lines 180-181)
OneMonthAgo ==
  /\ out' = Called("oneMonthAgo", oneMonthAgoOf(endDate))
  /\ UNCHANGED <<entity, benchmarks, strategies, startDate, endDate, utcOffset, uploadVars, activeTab, timeRange>>

\* getStartDate() with timeRange = M1 and latestDate
GetStartDate ==
  /\ timeRange' = "M1"
  /\ out' = Called("getStartDate", getStartDate(timeRange', endDate, startDate))
  /\ UNCHANGED <<entity, benchmarks, strategies, startDate, endDate, utcOffset, uploadVars, activeTab>>

NextMonthAgo == OneMonthAgo \/ GetStartDate

SpecMonthAgo == InitMonthAgo /\ [][NextMonthAgo]_vars

(***************************************************************************)
(* The upload path: parseExcelFile, processUploadedFiles and               *)
(* processBenchmarkFiles.  A cell of the sheet is what sheet_to_json hands *)
(* over: a number, a string or nothing.  For a string, n is what           *)
(* new Date(string).getTime() (in days) or parseFloat(string) makes of it, *)
(* and nan tells a string they cannot read.                                *)
(***************************************************************************)
NumberCell(n) == [kind |-> "number", n |-> n, nan |-> FALSE]

StringCell(n) == [kind |-> "string", n |-> n, nan |-> FALSE]

BadString == [kind |-> "string", n |-> 0, nan |-> TRUE]

EmptyCell == [kind |-> "empty", n |-> 0, nan |-> FALSE]

\* the Excel serial number of a day: 25569 is 1970-01-01
ExcelSerial(t) == t + 25569

\* row[0] as a condition: nothing, the empty string and 0 are falsy
Truthy(cell) ==
  CASE cell.kind = "number" -> cell.n # 0
    [] cell.kind = "string" -> TRUE
    [] OTHER                -> FALSE

\* the date of row[0]: Date.UTC(1899, 11, 30 + serial), or new Date(string)
RowDate(cell) ==
  IF cell.kind = "number"
  THEN [n |-> DateUTC(1899, 11, 30 + cell.n), nan |-> FALSE]
  ELSE [n |-> cell.n, nan |-> cell.nan]

\* the callback of json.slice(1).map (lines 20-44): a point, or null
ParseRow(row) ==
  IF Truthy(row[1]) /\ row[2].kind # "empty"
  THEN IF RowDate(row[1]).nan THEN NULL
       ELSE IF row[2].nan THEN NULL
       ELSE Some(Point(RowDate(row[1]).n, row[2].n))
  ELSE NULL

\* .map(...).filter(p => p !== null)
RECURSIVE ValidPoints(_, _)
ValidPoints(rows, i) ==
  IF i > Len(rows) THEN << >>
  ELSE ParseRow(rows[i]) \o ValidPoints(rows, i + 1)

\* p put into a sorted list after the points dated at or before it
RECURSIVE InsertByDate(_, _)
InsertByDate(sorted, p) ==
  IF sorted = << >> THEN <<p>>
  ELSE IF sorted[Len(sorted)].date <= p.date THEN Append(sorted, p)
  ELSE Append(InsertByDate(SubSeq(sorted, 1, Len(sorted) - 1), p),
              sorted[Len(sorted)])

\* .sort((a, b) => a.date - b.date), of the first n points
RECURSIVE SortByDate(_, _)
SortByDate(points, n) ==
  IF n = 0 THEN << >>
  ELSE InsertByDate(SortByDate(points, n - 1), points[n])

\* json.slice(1): the rows after the header row
SliceHeader(json) == IF json = << >> THEN << >> ELSE Tail(json)

historicalData(json) ==
  SortByDate(ValidPoints(SliceHeader(json), 1),
             Len(ValidPoints(SliceHeader(json), 1)))

\* The promise of parseExcelFile: resolved with the points, or rejected when
\* the file cannot be read (XLSX.read throws, or the reader fails).
parseExcelFile(file) ==
  IF file.readable THEN Return(historicalData(file.json))
  ELSE Throw("Failed to parse")

\* file.name.replace(/\.xlsx$/i, '')
StripXlsx(name) ==
  CASE name = "A.xlsx" -> "A"
    [] name = "B.xlsx" -> "B"
    [] name = "C.XLSX" -> "C"
    [] name = "D.xlsx" -> "D"
    [] OTHER           -> name

File(pathParts, name, readable, json) ==
  [pathParts |-> pathParts, name |-> name, readable |-> readable, json |-> json]

\* the place of strategyName among the keys of strategiesMap, 0 when absent
KeyIndex(strategiesMap, name) ==
  IF \E k \in 1..Len(strategiesMap) : strategiesMap[k].name = name
  THEN CHOOSE k \in 1..Len(strategiesMap) : strategiesMap[k].name = name
  ELSE 0

\* if (!strategiesMap[strategyName]) strategiesMap[strategyName] = []
WithKey(strategiesMap, name) ==
  IF KeyIndex(strategiesMap, name) = 0
  THEN Append(strategiesMap, [name |-> name, products |-> << >>])
  ELSE strategiesMap

\* faulty variant: a file without valid rows is pushed as well
PushParsed_keepsEmpty(strategiesMap, name, productName, parsed) ==
  IF parsed.threw THEN parsed
  ELSE Return([strategiesMap EXCEPT ![KeyIndex(strategiesMap, name)].products =
                 Append(@, Entity(productName, "product", Get(parsed.value)))])

\* lines 71-80: the product is pushed when its file has data; a rejected
\* parse rejects the whole upload
PushParsed(strategiesMap, name, productName, parsed) ==
  IF parsed.threw THEN parsed
  ELSE IF Len(Get(parsed.value)) > 0
  THEN Return([strategiesMap EXCEPT ![KeyIndex(strategiesMap, name)].products =
                 Append(@, Entity(productName, "product", Get(parsed.value)))])
  ELSE Return(strategiesMap)

\* one iteration of the loop over the files (lines 60-81)
UploadStep(strategiesMap, file) ==
  IF Len(file.pathParts) < 3 THEN Return(strategiesMap)
  ELSE PushParsed(WithKey(strategiesMap, file.pathParts[Len(file.pathParts) - 1]),
                  file.pathParts[Len(file.pathParts) - 1],
                  StripXlsx(file.name), parseExcelFile(file))

RECURSIVE UploadLoop(_, _, _)
UploadLoop(fileList, i, step) ==
  IF step.threw \/ i > Len(fileList) THEN step
  ELSE UploadLoop(fileList, i + 1, UploadStep(Get(step.value), fileList[i]))

\* Object.keys(strategiesMap).map(...) (lines 83-87)
StrategiesOfMap(strategiesMap) ==
  [k \in 1..Len(strategiesMap) |->
     [name       |-> strategiesMap[k].name,
      products   |-> strategiesMap[k].products,
      benchmarks |-> << >>]] \o << >>

CalculatedOrRejected(loop) ==
  IF loop.threw THEN loop
  ELSE calculateAllMetrics(StrategiesOfMap(Get(loop.value)))

\* The promise of processUploadedFiles: the calculated strategies, or the
\* error it is rejected with.
processUploadedFiles(fileList) ==
  CalculatedOrRejected(UploadLoop(fileList, 1, Return(<< >>)))

\* lines 95-104: the benchmark is pushed when its file has data
PushBenchmark(newBenchmarks, benchmarkName, parsed) ==
  IF parsed.threw THEN parsed
  ELSE IF Len(Get(parsed.value)) > 0
  THEN Return(Append(newBenchmarks,
                     Entity(benchmarkName, "benchmark", Get(parsed.value))))
  ELSE Return(newBenchmarks)

RECURSIVE BenchmarkLoop(_, _, _)
BenchmarkLoop(fileList, i, step) ==
  IF step.threw \/ i > Len(fileList) THEN step
  ELSE BenchmarkLoop(fileList, i + 1,
                     PushBenchmark(Get(step.value), StripXlsx(fileList[i].name),
                                   parseExcelFile(fileList[i])))

\* faulty variant: the new benchmarks are added to the strategy's benchmarks
updatedStrategies_appends(name, newBenchmarks, currentStrategies) ==
  [k \in 1..Len(currentStrategies) |->
     IF currentStrategies[k].name = name
     THEN [currentStrategies[k] EXCEPT !.benchmarks = @ \o newBenchmarks]
     ELSE currentStrategies[k]] \o << >>

\* currentStrategies.map(...) (lines 107-113)
updatedStrategies(name, newBenchmarks, currentStrategies) ==
  [k \in 1..Len(currentStrategies) |->
     IF currentStrategies[k].name = name
     THEN [currentStrategies[k] EXCEPT !.benchmarks = newBenchmarks]
     ELSE currentStrategies[k]] \o << >>

UpdatedOrRejected(name, loop, currentStrategies) ==
  IF loop.threw THEN loop
  ELSE calculateAllMetrics(updatedStrategies(name, Get(loop.value),
                                             currentStrategies))

\* The promise of processBenchmarkFiles.
processBenchmarkFiles(name, fileList, currentStrategies) ==
  UpdatedOrRejected(name, BenchmarkLoop(fileList, 1, Return(<< >>)),
                    currentStrategies)

\* what setStrategies stores of a resolved promise: plain lists
Resolved(outcome) ==
  StoredStrategies(Get(outcome.value), Len(Get(outcome.value)))

(***************************************************************************)
(* The files of the uploads.  Every sheet starts with a header row; dates  *)
(* come as Excel serial numbers or as strings, values as numbers or as     *)
(* strings, and some cells are empty or unreadable.                        *)
(***************************************************************************)
HeaderRow == <<BadString, BadString>>

\* rows out of order, one of them with an unreadable date:
\* [(2024-01-31, 1), (2024-03-31, 2)]
SheetUnsorted ==
  << HeaderRow,
     <<StringCell(DateUTC(2024, 2, 31)), StringCell(2)>>,
     <<BadString, NumberCell(1)>>,
     <<NumberCell(ExcelSerial(DateUTC(2024, 0, 31))), NumberCell(1)>> >>

\* [(2024-03-24, 1), (2024-03-31, 2)]
SheetLate ==
  << HeaderRow,
     <<NumberCell(ExcelSerial(DateUTC(2024, 2, 24))), StringCell(1)>>,
     <<StringCell(DateUTC(2024, 2, 31)), StringCell(2)>> >>

\* [(2023-11-30, 2), (2024-03-31, 1)]
SheetEarly ==
  << HeaderRow,
     <<NumberCell(ExcelSerial(DateUTC(2023, 10, 30))), NumberCell(2)>>,
     <<StringCell(DateUTC(2024, 2, 31)), NumberCell(1)>> >>

\* no valid row: no date, an unreadable value, the serial number 0, no value
SheetInvalid ==
  << HeaderRow,
     <<EmptyCell, NumberCell(1)>>,
     <<StringCell(DateUTC(2024, 2, 31)), BadString>>,
     <<NumberCell(0), NumberCell(1)>>,
     <<StringCell(DateUTC(2024, 0, 31)), EmptyCell>> >>

\* the folder upload: files of two strategy folders, a file outside any
\* strategy folder, and a file that cannot be read
ProductFiles ==
  { File(<<"root", "S1", "A.xlsx">>, "A.xlsx", TRUE, SheetUnsorted),
    File(<<"root", "S2", "A.xlsx">>, "A.xlsx", TRUE, SheetEarly),
    File(<<"root", "S2", "C.XLSX">>, "C.XLSX", TRUE, SheetInvalid),
    File(<<"B.xlsx">>, "B.xlsx", TRUE, SheetLate),
    File(<<"root", "S1", "D.xlsx">>, "D.xlsx", FALSE, << >>) }

\* the benchmark upload: files picked in one folder
BenchmarkFiles ==
  { File(<<"">>, "A.xlsx", TRUE, SheetEarly),
    File(<<"">>, "B.xlsx", TRUE, SheetLate),
    File(<<"">>, "C.XLSX", TRUE, SheetInvalid),
    File(<<"">>, "D.xlsx", FALSE, << >>) }

\* a FileList of at most MaxFiles files of F, at least one, none twice
FileLists(F) ==
  UNION { {fl \in [1..n -> F] : \A i, j \in 1..n : fl[i] = fl[j] => i = j} :
          n \in 1..MaxFiles }

StrategyNames(strats) == {strats[k].name : k \in 1..Len(strats)}

(***************************************************************************)
(* App: the stored strategies, isLoading and view, the two upload handlers *)
(* (each waits for its promise), the reset and the effect on [strategies]. *)
(* out holds the outcome of the upload that settled last, out.prev the     *)
(* strategies stored before it settled.                                    *)
(***************************************************************************)
\* what useLocalStorage finds stored when App starts: nothing, or the
\* strategies of an earlier session
StoredAtStart ==
  { << >>,
    Resolved(processUploadedFiles(
               <<File(<<"root", "S1", "A.xlsx">>, "A.xlsx", TRUE, SheetUnsorted)>>)) }

InitApp ==
  /\ utcOffset = HomeZone
  /\ strategies \in StoredAtStart
  /\ isLoading = TRUE
  /\ view = "uploader"
  /\ pending = NULL
  /\ effectDue = TRUE
  /\ files = << >>
  /\ strategyName = ""
  /\ entity = Entity("E", "product", << >>)
  /\ benchmarks = NULL
  /\ startDate = 0
  /\ endDate = 0
  /\ activeTab = "Overview"
  /\ timeRange = "ITD"
  /\ out = NoCall

\* what App renders (lines 60-77)
Screen ==
  IF isLoading THEN "loading"
  ELSE IF view = "dashboard" /\ Len(strategies) > 0 THEN "dashboard"
  ELSE "uploader"

\* the user can act on what is rendered once the effects of the last render
\* have run
Shown(screen) == Screen = screen /\ ~effectDue

\* useEffect(..., [strategies]) (lines 16-21)
UseEffect ==
  /\ effectDue
  /\ view' = IF Len(strategies) > 0 THEN "dashboard" ELSE view
  /\ isLoading' = FALSE
  /\ effectDue' = FALSE
  /\ UNCHANGED <<entity, benchmarks, strategies, startDate, endDate, utcOffset,
                 activeTab, timeRange, files, strategyName, pending, out>>

\* faulty variant: the handler does not show the loading screen
Awaiting_notLoading(handler, fl, name) ==
  /\ isLoading' = isLoading
  /\ pending' = Some([handler |-> handler, strategies |-> strategies])
  /\ files' = fl \o << >>
  /\ strategyName' = name
  /\ out' = NoCall

\* a handler up to its await: setIsLoading(true), and the promise is made
\* from the files and the strategies of this render
Awaiting(handler, fl, name) ==
  /\ isLoading' = TRUE
  /\ pending' = Some([handler |-> handler, strategies |-> strategies])
  /\ files' = fl \o << >>
  /\ strategyName' = name
  /\ out' = NoCall

\* handleDataUpload up to its await (lines 24-27), called by FileUploader
HandleDataUpload ==
  /\ Shown("uploader")
  /\ \E fl \in FileLists(ProductFiles) : Awaiting("handleDataUpload", fl, "")
  /\ UNCHANGED <<entity, benchmarks, strategies, startDate, endDate, utcOffset,
                 activeTab, timeRange, view, effectDue>>

\* handleBenchmarkUpload up to its await (lines 39-43), called by the
\* Dashboard with the name of the strategy whose tab is open
HandleBenchmarkUpload ==
  /\ Shown("dashboard")
  /\ \E name \in StrategyNames(strategies), fl \in FileLists(BenchmarkFiles) :
       Awaiting("handleBenchmarkUpload", fl, name)
  /\ UNCHANGED <<entity, benchmarks, strategies, startDate, endDate, utcOffset,
                 activeTab, timeRange, view, effectDue>>

\* the promise a handler waits for
Promise(call) ==
  IF call.handler = "handleDataUpload" THEN processUploadedFiles(files)
  ELSE processBenchmarkFiles(strategyName, files, call.strategies)

\* faulty variant: a rejected upload empties the stored strategies
Settled_clearsOnError(handler, outcome) ==
  /\ out' = [op |-> handler, val |-> outcome, prev |-> Some(strategies)]
  /\ strategies' = IF outcome.threw THEN << >> ELSE Resolved(outcome)
  /\ view' = IF ~outcome.threw /\ handler = "handleDataUpload"
             THEN "dashboard" ELSE view
  /\ effectDue' = TRUE
  /\ isLoading' = FALSE
  /\ pending' = NULL

\* a handler after its await: setStrategies and setView when the promise
\* resolved, the alert when it was rejected, setIsLoading(false) in both
\* cases (lines 28-35 and 44-50)
Settled(handler, outcome) ==
  /\ out' = [op |-> handler, val |-> outcome, prev |-> Some(strategies)]
  /\ strategies' = IF outcome.threw THEN strategies ELSE Resolved(outcome)
  /\ view' = IF ~outcome.threw /\ handler = "handleDataUpload"
             THEN "dashboard" ELSE view
  /\ effectDue' = ~outcome.threw
  /\ isLoading' = FALSE
  /\ pending' = NULL

SettleUpload ==
  /\ ~IsNull(pending)
  /\ Settled(Get(pending).handler, Promise(Get(pending)))
  /\ UNCHANGED <<entity, benchmarks, startDate, endDate, utcOffset,
                 activeTab, timeRange, files, strategyName>>

\* handleReset, confirmed (lines 53-58), called by the Dashboard
HandleReset ==
  /\ Shown("dashboard")
  /\ strategies' = << >>
  /\ view' = "uploader"
  /\ effectDue' = TRUE
  /\ out' = Called("handleReset", NULL)
  /\ UNCHANGED <<entity, benchmarks, startDate, endDate, utcOffset, activeTab, timeRange,
                 files, strategyName, isLoading, pending>>

NextApp ==
  \/ UseEffect
  \/ HandleDataUpload
  \/ HandleBenchmarkUpload
  \/ SettleUpload
  \/ HandleReset

SpecApp == InitApp /\ [][NextApp]_vars

\* the step in which the awaited promise settles: the FileReader of
\* parseExcelFile fires onload or onerror for every file, so the await of a
\* handler returns or throws; of the steps of NextApp these are the steps of
\* SettleUpload
PromiseSettles == ~IsNull(pending) /\ pending' = NULL

\* the effect runs after the render that changed strategies, and the promise
\* of an upload settles
FairApp == SpecApp /\ WF_vars(UseEffect) /\ WF_pending(PromiseSettles)

(***************************************************************************)
(* Properties.                                                             *)
(***************************************************************************)
\* the indices of the points of data dated at or before t
AtOrBefore(data, t) == {i \in 1..Len(data) : data[i].date <= t}

\* the as-of point of a sorted series, read off its definition: the last
\* point in the series' order among those dated at or before t
AsOf(data, t) ==
  IF AtOrBefore(data, t) = {} THEN NULL
  ELSE Some(data[CHOOSE i \in AtOrBefore(data, t) :
                     \A j \in AtOrBefore(data, t) : j <= i])

\* C1: calculateChange returns a number exactly when both as-of lookups
\* succeed, the start point's value is not 0 and the end point is dated
\* strictly after the start point; the number is
\* (end.value - start.value) / start.value; otherwise, and whenever the start
\* value is 0, the result is null.
C1_CalculateChange ==
  out.op = "calculateChange" =>
    LET s  == AsOf(entity.data, startDate)
        e  == AsOf(entity.data, endDate)
        ok == /\ ~IsNull(s)
              /\ ~IsNull(e)
              /\ Get(s).value # 0
              /\ Get(e).date > Get(s).date
    IN  /\ ~IsNull(out.val) <=> ok
        /\ ok => /\ Get(out.val).num * Get(s).value
                      = (Get(e).value - Get(s).value) * Get(out.val).den
                 /\ Get(out.val).den > 0
        /\ (~IsNull(s) /\ Get(s).value = 0) => IsNull(out.val)

C1_Witness ==
  /\ out.op = "calculateChange"
  /\ ~IsNull(out.val)
  /\ Get(out.val).num # 0
  /\ startDate # endDate

\* C2: on a date-ascending series getClosestDataPoint returns a point of the
\* series whose date is the greatest date at or before targetDate, never a
\* later point and never a value the series does not hold, and returns null
\* exactly when the series is empty or targetDate is before its first date.
C2_GetClosestDataPoint ==
  out.op = "getClosestDataPoint" =>
    LET data == entity.data
        none == Len(data) = 0 \/ startDate < data[1].date
    IN  /\ IsNull(out.val) <=> none
        /\ ~none =>
             /\ \E i \in 1..Len(data) : data[i] = Get(out.val)
             /\ Get(out.val).date <= startDate
             /\ \A i \in 1..Len(data) :
                  data[i].date <= startDate => data[i].date <= Get(out.val).date

C2_Witness ==
  /\ out.op = "getClosestDataPoint"
  /\ ~IsNull(out.val)
  /\ Get(out.val).date < startDate
  /\ Get(out.val) # entity.data[Len(entity.data)]

\* what calculateMetricsForEntity returned, when it returned
Returned == out.op = "calculateMetricsForEntity" /\ ~out.val.threw

Metrics == Get(out.val.value)

\* r is the exact value of n / d
IsRatio(r, n, d) == r.den > 0 /\ r.num * d = n * r.den

\* C3 as stated: for a series of at least 2 points whose first value is not
\* 0, duplicate dates allowed, changeITD is
\* (last.value - first.value) / first.value.
C3_ChangeITD_AsStated ==
  LET data == entity.data
  IN  (out.op = "calculateMetricsForEntity" /\ Len(data) >= 2 /\ data[1].value # 0)
        => /\ Returned
           /\ ~IsNull(Metrics.changeITD)
           /\ IsRatio(Get(Metrics.changeITD),
                      data[Len(data)].value - data[1].value, data[1].value)

\* C3 amended: for a series of at least 2 points whose first value is not 0
\* and whose second point is dated strictly after the first (the inception
\* date is held by one point only; later dates may repeat), changeITD is
\* (last.value - first.value) / first.value.
C3_ChangeITD ==
  LET data == entity.data
  IN  (/\ out.op = "calculateMetricsForEntity"
       /\ Len(data) >= 2
       /\ data[1].value # 0
       /\ data[1].date < data[2].date)
        => /\ Returned
           /\ ~IsNull(Metrics.changeITD)
           /\ IsRatio(Get(Metrics.changeITD),
                      data[Len(data)].value - data[1].value, data[1].value)

C3_Witness ==
  /\ Returned
  /\ Len(entity.data) = 3
  /\ entity.data[1].value # 0
  /\ entity.data[1].date < entity.data[2].date
  /\ entity.data[2].date = entity.data[3].date
  /\ entity.data[2].value # entity.data[3].value
  /\ ~IsNull(Metrics.changeITD)
  /\ Get(Metrics.changeITD).num # 0

\* the slots the claim describes, oldest first: slot i holds
\* periodReturn(series, monthStart, monthEnd) and is left out when that
\* return is unavailable
RECURSIVE PeriodSlots(_, _, _)
PeriodSlots(data, latestDate, i) ==
  IF i < 0 THEN << >>
  ELSE LET r == calculateChange(data, MonthStart(latestDate, i),
                                MonthEnd(latestDate, i))
       IN  (IF IsNull(r) THEN << >>
            ELSE << [month  |-> MonthLabel(MonthAnchor(latestDate, i)),
                     change |-> Get(r)] >>)
           \o PeriodSlots(data, latestDate, i - 1)

\* C5: each slot of the 6-month breakdown holds exactly the period return
\* from monthStart to monthEnd and is omitted whenever that return is
\* unavailable (a lookup fails, the start value is 0, or the end point is not
\* dated strictly after the start point).
C5_MonthlySlots ==
  out.op = "calculateMonthlyChanges" =>
    out.val = PeriodSlots(entity.data, entity.data[Len(entity.data)].date,
                          MonthSlots - 1)

\* C6: calculateMetricsForEntity throws exactly when the entity's data is
\* empty, and then produces no Metrics record.
C6_ThrowsIffEmpty ==
  out.op = "calculateMetricsForEntity" =>
    /\ out.val.threw <=> Len(entity.data) = 0
    /\ out.val.threw <=> IsNull(out.val.value)

C6_Witness ==
  /\ out.op = "calculateMetricsForEntity"
  /\ out.val.threw
  /\ ~IsNull(benchmarks)
  /\ Len(Get(benchmarks)) > 0

\* a window's field: null or a number
IsChange(x) == IsNull(x) \/ (Len(x) = 1 /\ Get(x).den > 0)

IsExcessRecord(r) ==
  /\ IsChange(r.change1W)
  /\ IsChange(r.change1M)
  /\ IsChange(r.changeYTD)
  /\ IsChange(r.changeITD)

C9_LaterBenchmarkNoITD ==
  (Returned /\ ~IsNull(Metrics.excessReturns)) =>
    \A k \in 1..Len(Get(benchmarks)) :
      LET b == Get(benchmarks)[k]
      IN  (Len(b.data) > 0 /\ b.data[1].date > entity.data[1].date)
            => IsNull(Get(Metrics.excessReturns)[k].changeITD)

\* ... even though the 1W and 1M excess fields are there
C9_Witness ==
  /\ Returned
  /\ ~IsNull(Metrics.excessReturns)
  /\ Len(Get(benchmarks)[1].data) > 0
  /\ Get(benchmarks)[1].data[1].date > entity.data[1].date
  /\ ~IsNull(Get(Metrics.excessReturns)[1].change1W)
  /\ ~IsNull(Get(Metrics.excessReturns)[1].change1M)
  /\ ~IsNull(Metrics.changeITD)
  /\ IsNull(Get(Metrics.excessReturns)[1].changeITD)

\* the ITD field of the excess record against the only benchmark
ExcessITD(outcome) == Get(Get(outcome.value).excessReturns)[1].changeITD

\* both runs of the product against its benchmark returned
BothRuns == out.op = "recalculated" /\ ~out.val.threw

\* C4 as stated: the ITD excess return of a product against a benchmark is
\* the same in two runs that differ only in the benchmark's own inception
\* date.
C4_AnchorOnly_AsStated ==
  BothRuns => ExcessITD(out.val) = ExcessITD(Get(out.prev))

\* C4 amended: the ITD excess return of a product against a benchmark is the
\* same in two runs that differ only in the benchmark's own inception date,
\* provided the benchmark starts at or before the product's inception date
\* in both runs.
C4_AnchorOnly ==
  (BothRuns /\ Get(benchmarks)[1].data[1].date <= entity.data[1].date)
    => ExcessITD(out.val) = ExcessITD(Get(out.prev))

\* a benchmark older than the product loses its earliest point and the
\* product's ITD excess return, a number other than 0, stays
C4_Witness ==
  /\ BothRuns
  /\ Get(benchmarks)[1].data[1].date <= entity.data[1].date
  /\ ~IsNull(ExcessITD(out.val))
  /\ Get(ExcessITD(out.val)).num # 0
  /\ ExcessITD(out.val) = ExcessITD(Get(out.prev))

\* what calculateAllMetrics returned, when it returned
ReturnedAll == out.op = "calculateAllMetrics" /\ ~out.val.threw

Calculated == Get(out.val.value)

\* e is p - q when both are numbers, and null when either is null
IsExcess(e, p, q) ==
  IF IsNull(p) \/ IsNull(q) THEN IsNull(e)
  ELSE /\ ~IsNull(e)
       /\ Get(e).den > 0
       /\ Get(e).num * Get(p).den * Get(q).den
            = (Get(p).num * Get(q).den - Get(q).num * Get(p).den) * Get(e).den

\* ex is the excess record of the product's metrics m against benchmark b
IsExcessAgainst(ex, m, b) ==
  /\ ex.vs = b.name
  /\ IsExcess(ex.change1W, m.change1W,
              calculateChange(b.data, oneWeekAgoOf(m.latestDate), m.latestDate))
  /\ IsExcess(ex.change1M, m.change1M,
              calculateChange(b.data, oneMonthAgoOf(m.latestDate), m.latestDate))
  /\ IsExcess(ex.changeYTD, m.changeYTD,
              calculateChange(b.data, startOfYearOf(m.latestDate), m.latestDate))
  /\ IsExcess(ex.changeITD, m.changeITD,
              calculateChange(b.data, m.inceptionDate, m.latestDate))

\* C8: for a product with a non-empty benchmark list, excessReturns holds one
\* record per benchmark, in the list's order and tagged with the benchmark's
\* name, and each of its four fields is productChange - benchmarkChange when
\* both are numbers and null when either is null.
C8_ExcessRecords ==
  ReturnedAll =>
    \A k \in 1..Len(strategies) :
      \A j \in 1..Len(strategies[k].products) :
        LET bs == strategies[k].benchmarks
            m  == Get(Calculated[k].products[j].metrics)
        IN  Len(bs) > 0 =>
              /\ ~IsNull(m.excessReturns)
              /\ Len(Get(m.excessReturns)) = Len(bs)
              /\ \A i \in 1..Len(bs) :
                   IsExcessAgainst(Get(m.excessReturns)[i], m, bs[i])

\* a product against two benchmarks: a number other than 0 against the
\* first, no ITD result against the second, which starts later
C8_Witness ==
  /\ ReturnedAll
  /\ \E k \in 1..Len(strategies) :
       /\ Len(strategies[k].products) > 0
       /\ Len(strategies[k].benchmarks) = 2
       /\ LET m  == Get(Calculated[k].products[1].metrics)
              ex == Get(m.excessReturns)
          IN  /\ ex[1].vs = BenchName(1)
              /\ ex[2].vs = BenchName(2)
              /\ ~IsNull(ex[1].change1W)
              /\ ~IsNull(ex[1].changeITD)
              /\ Get(ex[1].changeITD).num # 0
              /\ ~IsNull(m.changeITD)
              /\ IsNull(ex[2].changeITD)

\* C10: in what calculateAllMetrics returns, a Metrics record carries an
\* excessReturns list exactly when its entity is a product of a strategy with
\* at least one benchmark; a benchmark's Metrics never carries one.
C10_ExcessOnlyForProducts ==
  ReturnedAll =>
    \A k \in 1..Len(strategies) :
      /\ \A j \in 1..Len(Calculated[k].products) :
           /\ ~IsNull(Calculated[k].products[j].metrics)
           /\ ~IsNull(Get(Calculated[k].products[j].metrics).excessReturns)
                <=> Len(strategies[k].benchmarks) > 0
      /\ \A i \in 1..Len(Calculated[k].benchmarks) :
           /\ ~IsNull(Calculated[k].benchmarks[i].metrics)
           /\ IsNull(Get(Calculated[k].benchmarks[i].metrics).excessReturns)

\* one strategy with a product and a benchmark, another with a product only
C10_Witness ==
  /\ ReturnedAll
  /\ Len(strategies) = 2
  /\ Len(strategies[1].products) = 1
  /\ Len(strategies[1].benchmarks) = 1
  /\ Len(strategies[2].products) = 1
  /\ Len(strategies[2].benchmarks) = 0
  /\ ~IsNull(Get(Calculated[1].products[1].metrics).excessReturns)
  /\ IsNull(Get(Calculated[1].benchmarks[1].metrics).excessReturns)
  /\ IsNull(Get(Calculated[2].products[1].metrics).excessReturns)

\* the chart on the screen and the series it was given
Chart == Get(out.val)

Charted == Get(ChartEntities(strategies, activeTab))

SetMax(S) == CHOOSE x \in S : \A y \in S : x >= y

\* the start of the window the chart on the screen was drawn for
WindowStart ==
  getStartDate(timeRange, SetMax(allDates(Charted)),
               strategyInceptionDate(strategies, activeTab))

\* the dates of item's points in the window
DatesInWindow(item) ==
  {item.data[i].date : i \in 1..Len(item.data)} \cap {d \in allDates(Charted) : d >= WindowStart}

\* the slot of the series called name on the axis entry of date d
Slot(d, name) ==
  LET i == CHOOSE j \in 1..Len(Chart.chartData) : Chart.chartData[j].date = d
  IN  Chart.chartData[i].values[name]

One == [num |-> 1, den |-> 1]

\* C11: every charted series with a point at or after the window's start has
\* the rebased value 1 on the axis entry of its first date in the window,
\* whatever the window and the series (dates repeated in a series included).
C11_RebasedToOne ==
  \A k \in 1..Len(Charted) :
    DatesInWindow(Charted[k]) # {} =>
      Slot(SetMin(DatesInWindow(Charted[k])), Charted[k].name) = Some(One)

\* no two charted series have the same name
DistinctNames ==
  \A j, k \in 1..Len(Charted) : j # k => Charted[j].name # Charted[k].name

\* the axis dates before the first point of item in the window: every axis
\* date when item has no point in the window
DatesBeforeStart(item) ==
  {Chart.chartData[i].date : i \in 1..Len(Chart.chartData)}
    \cap {d \in allDates(Charted) :
            \A e \in DatesInWindow(item) : d < e}

\* C12 as stated: the slot of a series is null on every axis date before
\* the series' first point in the window.
C12_NoBackfill_AsStated ==
  \A k \in 1..Len(Charted) :
    \A d \in DatesBeforeStart(Charted[k]) : Slot(d, Charted[k].name) = NULL

\* C12 amended: when the charted series have distinct names, the slot of a
\* series is null on every axis date before the series' first point in the
\* window.
C12_NoBackfill ==
  DistinctNames =>
    \A k \in 1..Len(Charted) :
      \A d \in DatesBeforeStart(Charted[k]) : Slot(d, Charted[k].name) = NULL

\* a series starting after another one: null on the axis dates before its
\* first point, 1 on that point's date, while the other series has values
C12_Witness ==
  /\ DistinctNames
  /\ Len(Charted) = 2
  /\ DatesInWindow(Charted[2]) # {}
  /\ DatesBeforeStart(Charted[2]) # {}
  /\ \A d \in DatesBeforeStart(Charted[2]) :
       /\ Slot(d, Charted[2].name) = NULL
       /\ Slot(d, Charted[1].name) # NULL
  /\ Slot(SetMin(DatesInWindow(Charted[2])), Charted[2].name) = Some(One)

\* the axis of the chart on the screen
Axis == [i \in 1..Len(Chart.chartData) |-> Chart.chartData[i].date]

HasPointOn(item, d) == \E i \in 1..Len(item.data) : item.data[i].date = d

\* the value of the first point of item in the window
Anchor(item) ==
  item.data[SetMin({i \in 1..Len(item.data) : item.data[i].date >= WindowStart})].value

\* the rebased values of the points of item dated d
OwnValues(item, d) ==
  {Some(Quotient(item.data[i].value, Anchor(item))) :
     i \in {j \in 1..Len(item.data) : item.data[j].date = d}}

\* the slots of item are forward-filled: a defined value is carried to the
\* next axis date when item has no point there, and a date with a point of
\* item holds that point's rebased value
IsForwardFilled(item) ==
  /\ \A i \in 1..(Len(Axis) - 1) :
       (Slot(Axis[i], item.name) # NULL /\ ~HasPointOn(item, Axis[i + 1]))
         => Slot(Axis[i + 1], item.name) = Slot(Axis[i], item.name)
  /\ \A i \in 1..Len(Axis) :
       HasPointOn(item, Axis[i]) => Slot(Axis[i], item.name) \in OwnValues(item, Axis[i])

\* C13 as stated: a series with a defined value on an axis date and no point
\* on the next axis date has the same value there, over runs of several gap
\* dates too, and a date with a point of the series is never overwritten.
C13_ForwardFill_AsStated ==
  \A k \in 1..Len(Charted) : IsForwardFilled(Charted[k])

\* C13 amended: the same, when the charted series have distinct names.
C13_ForwardFill ==
  DistinctNames => \A k \in 1..Len(Charted) : IsForwardFilled(Charted[k])

\* a value carried over two gap dates in a row, up to the series' next point
C13_Witness ==
  /\ DistinctNames
  /\ \E k \in 1..Len(Charted) : \E i \in 1..(Len(Axis) - 3) :
       /\ HasPointOn(Charted[k], Axis[i])
       /\ ~HasPointOn(Charted[k], Axis[i + 1])
       /\ ~HasPointOn(Charted[k], Axis[i + 2])
       /\ HasPointOn(Charted[k], Axis[i + 3])
       /\ Slot(Axis[i], Charted[k].name) # NULL
       /\ Slot(Axis[i + 1], Charted[k].name) = Slot(Axis[i], Charted[k].name)
       /\ Slot(Axis[i + 2], Charted[k].name) = Slot(Axis[i], Charted[k].name)
       /\ Slot(Axis[i + 3], Charted[k].name) # Slot(Axis[i], Charted[k].name)

\* the dates of the points of the charted series, as a finite set
PointDates ==
  UNION { {Charted[k].data[i].date : i \in 1..Len(Charted[k].data)}
          : k \in 1..Len(Charted) }

\* C14: the axis holds exactly the distinct dates of the charted series that
\* are at or after the start of the window, in strictly ascending order, and
\* the window is resolved from the greatest date of all the series' dates.
C14_Axis ==
  IF Len(Charted) = 0 THEN Axis = << >>
  ELSE /\ {Axis[i] : i \in 1..Len(Axis)}
            = {d \in PointDates :
                 d >= getStartDate(timeRange, SetMax(PointDates),
                                   strategyInceptionDate(strategies, activeTab))}
       /\ \A i \in 1..(Len(Axis) - 1) : Axis[i] < Axis[i + 1]

\* two series with dates in common under the 1-month window: five dates in
\* all, two of them on the axis
C14_Witness ==
  /\ Len(Charted) = 2
  /\ timeRange = "M1"
  /\ Cardinality(PointDates) = 5
  /\ Len(Axis) = 2
  /\ \E d \in PointDates : HasPointOn(Charted[1], d) /\ HasPointOn(Charted[2], d)

\* the dates of the first points of the charted entities of a type
Inceptions(types) ==
  {Charted[k].data[1].date : k \in {j \in 1..Len(Charted) : Charted[j].type \in types}}

AxisDates == {Axis[i] : i \in 1..Len(Axis)}

\* C15 as stated: under ITD the window of a chart starts at the earliest
\* inception date among the charted entities, products and benchmarks alike,
\* so the axis holds every date from that one on.
C15_SharedITDStart_AsStated ==
  (timeRange = "ITD" /\ Len(Charted) > 0) =>
    AxisDates = {d \in PointDates : d >= SetMin(Inceptions({"product", "benchmark"}))}

\* C15 amended: under ITD the window of a chart with at least one product
\* starts at the earliest inception date among the charted products, one
\* start shared by all the series; charted benchmarks do not move it.
C15_SharedITDStart ==
  (timeRange = "ITD" /\ Inceptions({"product"}) # {}) =>
    AxisDates = {d \in PointDates : d >= SetMin(Inceptions({"product"}))}

\* a strategy's tab with a product and an older benchmark: the axis starts
\* at the product's inception date, where the benchmark is rebased to 1
C15_Witness ==
  /\ timeRange = "ITD"
  /\ activeTab # "Overview"
  /\ Inceptions({"product"}) # {}
  /\ Inceptions({"benchmark"}) # {}
  /\ SetMin(Inceptions({"benchmark"})) < SetMin(Inceptions({"product"}))
  /\ Axis[1] = SetMin(Inceptions({"product"}))
  /\ \A k \in 1..Len(Charted) : Slot(Axis[1], Charted[k].name) = Some(One)

\* C16: calculateAllMetrics over its own output, whose entities hold the
\* metrics of the first run, returns what the first run over the same series
\* returned.
C16_Idempotent ==
  out.op = "recalculateAllMetrics" =>
    /\ ~out.val.threw
    /\ out.val = Get(out.prev)
    /\ Get(out.val.value) = strategies

\* a second run over a product that holds metrics with excess returns
C16_Witness ==
  /\ out.op = "recalculateAllMetrics"
  /\ \E k \in 1..Len(strategies) :
       /\ Len(strategies[k].products) > 0
       /\ Len(strategies[k].benchmarks) > 0
       /\ ~IsNull(strategies[k].products[1].metrics)
       /\ ~IsNull(Get(strategies[k].products[1].metrics).excessReturns)
       /\ ~IsNull(Get(Get(Get(out.val.value)[k].products[1].metrics).excessReturns)[1].changeITD)

\* the calendar month a label names, counted in months
MonthIndex(label) == label[1] * 12 + label[2]

\* C17: monthlyChanges has at most 6 entries, each of a month among the 6
\* calendar months ending at latestDate's month, in strictly increasing
\* order of month (oldest first, no month twice).
C17_MonthlyOrder ==
  out.op = "calculateMonthlyChanges" =>
    LET latestDate == entity.data[Len(entity.data)].date
        last       == getUTCFullYear(latestDate) * 12 + getUTCMonth(latestDate)
    IN  /\ Len(out.val) <= 6
        /\ \A k \in 1..Len(out.val) :
             MonthIndex(out.val[k].month) \in (last - 5)..last
        /\ \A k \in 1..(Len(out.val) - 1) :
             MonthIndex(out.val[k].month) < MonthIndex(out.val[k + 1].month)

\* C18: for every non-empty series the changeITD field of the metrics record
\* is a number, never null, as the Metrics type declares.
C18_ChangeITDIsNumber ==
  (out.op = "calculateMetricsForEntity" /\ Len(entity.data) > 0) =>
    /\ Returned
    /\ ~IsNull(Metrics.changeITD)

\* the entities of a strategy, benchmarks first, as calculateAllMetrics
\* visits them
EntitiesIn(strategy) == strategy.benchmarks \o strategy.products

\* C19: when calculateAllMetrics runs over strategies in which an entity has
\* no data points, the failure is that entity's only: the call still returns,
\* and every product and benchmark that has data is given its metrics.
C19_FailureIsLocal ==
  (/\ out.op = "calculateAllMetrics"
   /\ \E k \in 1..Len(strategies) : \E j \in 1..Len(EntitiesIn(strategies[k])) :
        Len(EntitiesIn(strategies[k])[j].data) > 0) =>
    /\ ~out.val.threw
    /\ \A k \in 1..Len(strategies) :
         \A j \in 1..Len(EntitiesIn(strategies[k])) :
           Len(EntitiesIn(strategies[k])[j].data) > 0 =>
             ~IsNull(EntitiesIn(Calculated[k])[j].metrics)

\* a product's metrics were returned together with excess records
ReturnedExcess ==
  /\ Returned
  /\ entity.type = "product"
  /\ ~IsNull(benchmarks)
  /\ Len(Get(benchmarks)) > 0

\* the benchmark's last point is dated at or before the reference date
EndsBy(b, ref) == Len(b.data) > 0 /\ b.data[Len(b.data)].date <= ref

\* e is the excess over the window from ref to the product's latest date:
\* the benchmark's change is taken from ref to the product's latest date, and
\* the field is null when the benchmark's last point is dated by ref
IsProductWindowExcess(e, p, b, ref, latestDate) ==
  /\ IsExcess(e, p, calculateChange(b.data, ref, latestDate))
  /\ EndsBy(b, ref) => IsNull(e)

\* C20: in the excess-return computation a benchmark's 1W, 1M and YTD changes
\* are computed with the product's reference dates and the product's
\* latestDate as the end date, not the benchmark's own; so when the
\* benchmark's last point is dated at or before the product's reference date
\* the excess-return field of that window is null.
C20_ProductWindows ==
  ReturnedExcess =>
    \A i \in 1..Len(Get(benchmarks)) :
      LET b  == Get(benchmarks)[i]
          ex == Get(Metrics.excessReturns)[i]
          latestDate == entity.data[Len(entity.data)].date
      IN  /\ IsProductWindowExcess(ex.change1W, Metrics.change1W, b,
                                   oneWeekAgoOf(latestDate), latestDate)
          /\ IsProductWindowExcess(ex.change1M, Metrics.change1M, b,
                                   oneMonthAgoOf(latestDate), latestDate)
          /\ IsProductWindowExcess(ex.changeYTD, Metrics.changeYTD, b,
                                   startOfYearOf(latestDate), latestDate)

\* a product with a 1M change against a benchmark that ended before the
\* product's 1M reference date: the benchmark has a 1M change over its own
\* window, and the excess field is null
C20_Witness ==
  /\ ReturnedExcess
  /\ ~IsNull(Metrics.change1M)
  /\ LET b  == Get(benchmarks)[1]
         latestDate == entity.data[Len(entity.data)].date
     IN  /\ EndsBy(b, oneMonthAgoOf(latestDate))
         /\ ~IsNull(calculateChange(b.data,
                                    oneMonthAgoOf(b.data[Len(b.data)].date),
                                    b.data[Len(b.data)].date))
         /\ IsNull(Get(Metrics.excessReturns)[1].change1M)

\* the index of the as-of point of a sorted series at t, 0 when there is none
AsOfIndex(data, t) ==
  IF AtOrBefore(data, t) = {} THEN 0
  ELSE CHOOSE i \in AtOrBefore(data, t) : \A j \in AtOrBefore(data, t) : j <= i

\* r is the period return from the as-of point at ref to the latest point:
\* null when there is no as-of point or it is the latest point itself (and
\* when the return itself is unavailable: start value 0, or no later date)
IsReturnToLatest(r, data, ref) ==
  LET i    == AsOfIndex(data, ref)
      last == data[Len(data)]
  IN  IF i = 0 \/ i = Len(data) THEN IsNull(r)
      ELSE IF data[i].value = 0 \/ last.date <= data[i].date THEN IsNull(r)
      ELSE /\ ~IsNull(r)
           /\ IsRatio(Get(r), last.value - data[i].value, data[i].value)

\* C21: change1W is the period return from the as-of point at latestDate
\* minus 7 days to the latest point, changeYTD the one from the as-of point
\* at Jan 1 (UTC) of latestDate's year; each is null when that as-of point
\* does not exist or is the latest point itself.
C21_TrailingWindows ==
  Returned =>
    LET data       == entity.data
        latestDate == data[Len(data)].date
    IN  /\ IsReturnToLatest(Metrics.change1W, data, latestDate - 7)
        /\ IsReturnToLatest(Metrics.changeYTD, data,
                            DateUTC(getUTCFullYear(latestDate), 0, 1))

\* a series with a point a week before the latest and one before the year
\* started: both changes are numbers, and they differ
C21_Witness ==
  /\ Returned
  /\ Len(entity.data) = 3
  /\ ~IsNull(Metrics.change1W)
  /\ ~IsNull(Metrics.changeYTD)
  /\ Metrics.change1W # Metrics.changeYTD
  /\ entity.data[1].date < DateUTC(getUTCFullYear(entity.data[3].date), 0, 1)

\* the calendar month of a date, counted in months
MonthOf(t) == getUTCFullYear(t) * 12 + getUTCMonth(t)

\* C22: for every latestDate, the oneMonthAgo reference date of change1M and
\* the M1 chart window start lie in the calendar month immediately before
\* latestDate's month, also when latestDate's day of the month does not exist
\* in that month.
C22_PrecedingMonth ==
  out.op \in {"oneMonthAgo", "getStartDate"} =>
    MonthOf(out.val) = MonthOf(endDate) - 1

\* an upload handler's promise has settled
SettledUpload == out.op \in {"handleDataUpload", "handleBenchmarkUpload"}

\* the strategies an upload resolved with
Uploaded == Get(out.val.value)

\* a row that yields a point: a readable date and a readable value
IsValidRow(row) ==
  /\ \/ row[1].kind = "number" /\ row[1].n # 0
     \/ row[1].kind = "string" /\ ~row[1].nan
  /\ row[2].kind # "empty"
  /\ ~row[2].nan

\* the sheet has a valid row after its header row
HasValidRow(json) == \E i \in 2..Len(json) : IsValidRow(json[i])

\* the files of a folder upload that yield a product
ProductFilesIn(fl) ==
  {i \in 1..Len(fl) : Len(fl[i].pathParts) >= 3 /\ HasValidRow(fl[i].json)}

\* the number of products of the first k strategies
RECURSIVE ProductCount(_, _)
ProductCount(strats, k) ==
  IF k = 0 THEN 0
  ELSE ProductCount(strats, k - 1) + Len(strats[k].products)

\* C23: every product and benchmark the upload path hands to
\* calculateAllMetrics has a non-empty data array sorted by date ascending;
\* a file without valid rows is dropped, and no upload is rejected with the
\* empty-series failure: the only rejection is a file that cannot be read.
C23_UploadedSeries ==
  SettledUpload =>
    IF out.val.threw THEN out.val.error = "Failed to parse"
    ELSE /\ \A k \in 1..Len(Uploaded) :
              \A j \in 1..Len(EntitiesIn(Uploaded[k])) :
                /\ Len(EntitiesIn(Uploaded[k])[j].data) > 0
                /\ IsSorted(EntitiesIn(Uploaded[k])[j].data)
                /\ ~IsNull(EntitiesIn(Uploaded[k])[j].metrics)
         /\ out.op = "handleDataUpload" =>
              ProductCount(Uploaded, Len(Uploaded))
                = Cardinality(ProductFilesIn(files))

\* a folder upload of a sheet with rows out of order and a sheet without a
\* valid row: the first is a product with its points in date order, the
\* second is left out and its strategy has no product
C23_Witness ==
  /\ out.op = "handleDataUpload"
  /\ ~out.val.threw
  /\ Len(files) = 2
  /\ files[1].json = SheetUnsorted
  /\ files[2].json = SheetInvalid
  /\ Len(Uploaded) = 2
  /\ Len(Uploaded[1].products) = 1
  /\ Uploaded[1].products[1].data
       = <<Point(DateUTC(2024, 0, 31), 1), Point(DateUTC(2024, 2, 31), 2)>>
  /\ Uploaded[2].products = << >>

\* a benchmark upload resolved: Before and Uploaded are the strategies
\* before and after it
BenchmarksReplaced == out.op = "handleBenchmarkUpload" /\ ~out.val.threw

Before == Get(out.prev)

\* the uploaded files that hold data, in the order of the upload
FilesWithData == SelectSeq(files, LAMBDA f : HasValidRow(f.json))

\* the vs tags of a product's excess-return records
ExcessTags(product) ==
  IF IsNull(Get(product.metrics).excessReturns) THEN << >>
  ELSE [i \in 1..Len(Get(Get(product.metrics).excessReturns)) |->
          Get(Get(product.metrics).excessReturns)[i].vs]

\* C24: processBenchmarkFiles(strategyName, files, current) replaces the
\* benchmarks of the strategy named strategyName by the newly parsed ones and
\* leaves every other strategy (products, benchmarks, metrics) and every
\* strategy's product data unchanged; each product of the named strategy
\* then has excess-return records for exactly the new benchmarks.
C24_BenchmarksReplaced ==
  BenchmarksReplaced =>
    /\ Len(Uploaded) = Len(Before)
    /\ \A k \in 1..Len(Before) :
         IF Before[k].name # strategyName THEN Uploaded[k] = Before[k]
         ELSE /\ Uploaded[k].name = strategyName
              /\ Len(Uploaded[k].benchmarks) = Len(FilesWithData)
              /\ \A i \in 1..Len(FilesWithData) :
                   /\ Uploaded[k].benchmarks[i].name
                        = StripXlsx(FilesWithData[i].name)
                   /\ Uploaded[k].benchmarks[i].type = "benchmark"
                   /\ Uploaded[k].benchmarks[i].data
                        = historicalData(FilesWithData[i].json)
              /\ Len(Uploaded[k].products) = Len(Before[k].products)
              /\ \A j \in 1..Len(Before[k].products) :
                   /\ Uploaded[k].products[j].name = Before[k].products[j].name
                   /\ Uploaded[k].products[j].data = Before[k].products[j].data
                   /\ Len(ExcessTags(Uploaded[k].products[j]))
                        = Len(FilesWithData)
                   /\ \A i \in 1..Len(FilesWithData) :
                        ExcessTags(Uploaded[k].products[j])[i]
                          = StripXlsx(FilesWithData[i].name)

\* the second of two strategies had benchmark A and is given benchmark B, in
\* an upload that also holds a file without valid rows: its product's only
\* excess-return record is now the one against B
C24_Witness ==
  /\ BenchmarksReplaced
  /\ Len(Before) = 2
  /\ strategyName = Before[2].name
  /\ Len(Before[1].products) = 1
  /\ Len(Before[2].products) = 1
  /\ Len(Before[2].benchmarks) = 1
  /\ Before[2].benchmarks[1].name = "A"
  /\ Len(files) = 2
  /\ Len(FilesWithData) = 1
  /\ ExcessTags(Before[2].products[1]) = <<"A">>
  /\ ExcessTags(Uploaded[2].products[1]) = <<"B">>

\* a step that starts an upload or goes on while it is under way
UploadUnderWay == ~IsNull(pending')

\* a step in which an upload ends rejected
UploadFails == ~IsNull(pending) /\ IsNull(pending') /\ out'.val.threw

\* from the start of an upload to its failure, no step changes the stored
\* strategies or the view
FailedUploadKeepsState ==
  [][(UploadUnderWay \/ UploadFails) =>
       (strategies' = strategies /\ view' = view)]_vars

\* the loading state is cleared after every upload (and after the start)
LoadingClears == isLoading ~> ~isLoading

\* C25: an upload, product or benchmark, whose processing fails leaves the
\* stored strategies and the view as they were before it started, and after
\* any upload, successful or failed, isLoading is eventually cleared.
C25_FailedUpload == FailedUploadKeepsState /\ LoadingClears

\* a benchmark upload was rejected: the Dashboard is shown again with the
\* strategies it had
C25_Witness ==
  /\ out.op = "handleBenchmarkUpload"
  /\ out.val.threw
  /\ ~isLoading
  /\ IsNull(pending)
  /\ strategies = Before
  /\ Screen = "dashboard"

\* a step made through the Dashboard: handleBenchmarkUpload starts, or a
\* confirmed handleReset
DashboardStep ==
  \/ /\ IsNull(pending)
     /\ ~IsNull(pending')
     /\ Get(pending').handler = "handleBenchmarkUpload"
  \/ out.op # "handleReset" /\ out'.op = "handleReset"

\* the Dashboard is on screen only with a non-empty strategies list, and its
\* handlers run only then
DashboardOnlyWithData ==
  /\ [](Screen = "dashboard" => Len(strategies) > 0 /\ view = "dashboard")
  /\ [][DashboardStep => Len(strategies) > 0 /\ Screen = "dashboard"]_vars

\* while an upload is in progress the loading screen is shown, and the only
\* step is the end of that upload
OneUploadAtATime ==
  /\ [](~IsNull(pending) => Screen = "loading")
  /\ [][~IsNull(pending) =>
          IsNull(pending') /\ out'.op = Get(pending).handler]_vars

\* after a confirmed reset, and until the next upload starts, the strategies
\* list is empty and the uploader is shown
ResetShowsUploader ==
  [](out.op = "handleReset" =>
       strategies = << >> /\ view = "uploader" /\ Screen = "uploader")

\* C26: across uploads, benchmark uploads and confirmed resets, the Dashboard
\* is shown only while the strategies list is non-empty; no second upload or
\* reset starts while an upload is in progress, the loading screen replacing
\* both the Dashboard and the FileUploader; and after a confirmed reset the
\* strategies list is empty and the uploader is shown.
C26_OneScreen == DashboardOnlyWithData /\ OneUploadAtATime /\ ResetShowsUploader

\* a folder upload, then a benchmark upload, then a confirmed reset: the
\* uploader is shown over an empty strategies list
C26_Witness ==
  /\ out.op = "handleReset"
  /\ strategyName # ""
  /\ Len(files) > 0
  /\ strategies = << >>
  /\ ~effectDue
  /\ Screen = "uploader"

====
